---- MODULE Spec2Model ----
(***************************************************************************)
(* Slicing trees and Normalized Polish Expressions (NPE): the tree arena,  *)
(* its postorder encoding, the stack evaluator, the chain iterator and the *)
(* three perturbation moves M1, M2, M3 of src/src/lib.rs, and the          *)
(* annealing driver and its parallel multi-start of src/src/main.rs.       *)
(*                                                                         *)
(* Rust vectors are TLA+ sequences; every index in this module is the      *)
(* 0-based index of the source, read and written through At and SetAt.     *)
(***************************************************************************)
EXTENDS Integers, Sequences, FiniteSets

\* ------------------------------------------------------------------ bounds
\* largest `time` (number of temperature stages) handed to simulated_annealing
MaxTime == 2
\* largest multiplier `k` handed to simulated_annealing
MaxK == 1
\* largest number of annealing runs main's parallel iterator starts
Workers == 2
\* largest num_cuts handed to random_tree
MaxCuts == 3
\* largest candidate list of m3 whose shuffles are enumerated exhaustively
MaxShuffle == 3
\* largest number of next() calls made on one chains() iterator
MaxCalls == 6
\* largest iterations argument of perturb
MaxIter == 2

\* ------------------------------------------------------- values of the code
\* Option::None of the Option<usize> / Option<Cut> fields
None == -1
\* enum Cut
Horizontal == 0
Vertical == 1
Cuts == {Horizontal, Vertical}

\* starting rectangles handed to SlicingTree::new
Dims == {<<4, 4>>, <<8, 4>>, <<5, 7>>, <<6, 3>>}
\* the starting rectangle of the runs that perturb an NPE
StartDim == <<8, 8>>

At(s, i) == s[i + 1]
SetAt(s, i, v) == [s EXCEPT ![i + 1] = v]
InRange(s, i) == i >= 0 /\ i < Len(s)
Max(a, b) == IF a >= b THEN a ELSE b

\* --------------------------------------------------------------- Rect, Cut
RectNew(width, height) == [width |-> width, height |-> height]

\* mutant: the halved side and the kept side are exchanged
RectCutOtherSide(self, cut) ==
    IF cut = Horizontal
    THEN LET r == RectNew(self.width \div 2, self.height) IN <<r, r>>
    ELSE LET r == RectNew(self.width, self.height \div 2) IN <<r, r>>

RectCut(self, cut) ==
    IF cut = Horizontal
    THEN LET r == RectNew(self.width, self.height \div 2) IN <<r, r>>
    ELSE LET r == RectNew(self.width \div 2, self.height) IN <<r, r>>

RectAabb(left, right, cut) ==
    IF cut = Vertical
    THEN RectNew(left.width + right.width, Max(left.height, right.height))
    ELSE RectNew(Max(left.width, right.width), left.height + right.height)

RectCost(self) == self.width * self.height

opposite(cut) == IF cut = Horizontal THEN Vertical ELSE Horizontal

\* ---------------------------------------------------------------- TreeItem
ItemRect(i) == [tag |-> "Rect", v |-> i]
ItemCut(c) == [tag |-> "Cut", v |-> c]
is_rect(item) == item.tag = "Rect"
is_cut(item) == item.tag = "Cut"

\* -------------------------------------------------------------------- Node
NodeNew(cut, rect, left, right, parent) ==
    [cut |-> cut, rect |-> rect, left |-> left, right |-> right, parent |-> parent]

NodeRoot == NodeNew(None, None, None, None, None)

\* ------------------------------------------------------------- SlicingTree
SlicingTreeNew(starting_width, starting_height) ==
    [data |-> <<RectNew(starting_width, starting_height)>>,
     nodes |-> <<[NodeRoot EXCEPT !.rect = 0]>>]

\* the leaves the random descent of random_tree can stop at, from `current`
RECURSIVE DescentLeaves(_, _)
DescentLeaves(tree, current) ==
    IF At(tree.nodes, current).rect # None
    THEN {current}
    ELSE DescentLeaves(tree, At(tree.nodes, current).left)
         \cup DescentLeaves(tree, At(tree.nodes, current).right)

\* mutant: a leaf below a parent is cut the way its parent was cut
LeafCutsLikeParent(tree, current) ==
    LET parent == At(tree.nodes, current).parent
    IN  IF parent # None THEN {At(tree.nodes, parent).cut} ELSE Cuts

\* the cuts the loop body of random_tree can pick for the leaf `current`
LeafCuts(tree, current) ==
    LET parent == At(tree.nodes, current).parent
    IN  IF parent # None THEN {opposite(At(tree.nodes, parent).cut)} ELSE Cuts

\* one iteration of the loop of random_tree, for the leaf and the cut drawn
CutLeaf(tree, current, cut) ==
    LET rect_idx == At(tree.nodes, current).rect
        rect == At(tree.data, rect_idx)
        halves == RectCut(rect, cut)
        data1 == SetAt(tree.data, rect_idx, halves[1])
        left_rect == rect_idx
        data2 == Append(data1, halves[2])
        right_rect == Len(data2) - 1
        nodes1 == Append(tree.nodes, NodeNew(None, left_rect, None, None, current))
        left_idx == Len(nodes1) - 1
        nodes2 == Append(nodes1, NodeNew(None, right_rect, None, None, current))
        right_idx == Len(nodes2) - 1
        new_parent == [At(nodes2, current) EXCEPT !.rect = None, !.cut = cut,
                                                  !.left = left_idx, !.right = right_idx]
    IN  [data |-> data2, nodes |-> SetAt(nodes2, current, new_parent)]

\* every tree random_tree(width, height, num_cuts) can return
RECURSIVE random_tree(_, _, _)
random_tree(width, height, num_cuts) ==
    IF num_cuts = 0
    THEN {SlicingTreeNew(width, height)}
    ELSE UNION {{CutLeaf(t, current, cut) : cut \in LeafCuts(t, current)}
                  : <<t, current>> \in
                    UNION {{<<u, c>> : c \in DescentLeaves(u, 0)}
                             : u \in random_tree(width, height, num_cuts - 1)}}

RECURSIVE postorder_rec(_, _)
\* mutant: a node's operator is emitted before its subtrees
postorder_rec_operator_first(tree, root) ==
    LET root_node == At(tree.nodes, root)
    IN  IF root_node.rect # None
        THEN <<ItemRect(root_node.rect)>>
        ELSE (IF root_node.cut # None THEN <<ItemCut(root_node.cut)>> ELSE <<>>)
             \o postorder_rec(tree, root_node.left)
             \o postorder_rec(tree, root_node.right)

postorder_rec(tree, root) ==
    LET root_node == At(tree.nodes, root)
    IN  IF root_node.rect # None
        THEN <<ItemRect(root_node.rect)>>
        ELSE postorder_rec(tree, root_node.left)
             \o postorder_rec(tree, root_node.right)
             \o (IF root_node.cut # None THEN <<ItemCut(root_node.cut)>> ELSE <<>>)

RECURSIVE TreeAabb(_, _)
TreeAabb(tree, root) ==
    LET node == At(tree.nodes, root)
    IN  IF node.rect # None
        THEN At(tree.data, node.rect)
        ELSE RectAabb(TreeAabb(tree, node.left), TreeAabb(tree, node.right), node.cut)

\* --------------------------------------------------------------------- NPE
\* calculate_ballot: the running (operands, operators) counts of expr
RECURSIVE BallotUpTo(_, _)
BallotUpTo(expr, i) ==
    IF i = 0
    THEN <<IF is_cut(At(expr, 0)) THEN <<0, 1>> ELSE <<1, 0>>>>
    ELSE LET before == BallotUpTo(expr, i - 1)
             last == At(before, i - 1)
         IN  Append(before, IF is_rect(At(expr, i))
                            THEN <<last[1] + 1, last[2]>>
                            ELSE <<last[1], last[2] + 1>>)

calculate_ballot(expr) == BallotUpTo(expr, Len(expr) - 1)

NPENew(expr) == [expr |-> expr, ballot |-> calculate_ballot(expr)]

postorder(tree) == NPENew(postorder_rec(tree, 0))

\* NPE::aabb: the operand stack after the tokens expr[i..], or the fatal error
\* the evaluator stops with
RECURSIVE AabbRun(_, _, _, _)
\* mutant: an operator pops the right rectangle only and reads the left in place
AabbRunOnePop(expr, rects, i, operands) ==
    IF i = Len(expr)
    THEN [status |-> IF Len(operands) = 0 THEN "index" ELSE "ok", operands |-> operands]
    ELSE LET e == At(expr, i)
         IN  IF is_rect(e)
             THEN IF InRange(rects, e.v)
                  THEN AabbRun(expr, rects, i + 1, Append(operands, At(rects, e.v)))
                  ELSE [status |-> "index", operands |-> operands]
             ELSE IF Len(operands) < 2
                  THEN [status |-> "unwrap", operands |-> operands]
                  ELSE LET right == operands[Len(operands)]
                           left == operands[Len(operands) - 1]
                           rest == SubSeq(operands, 1, Len(operands) - 1)
                       IN  AabbRun(expr, rects, i + 1,
                                   Append(rest, RectAabb(left, right, e.v)))

AabbRun(expr, rects, i, operands) ==
    IF i = Len(expr)
    THEN [status |-> IF Len(operands) = 0 THEN "index" ELSE "ok", operands |-> operands]
    ELSE LET e == At(expr, i)
         IN  IF is_rect(e)
             THEN IF InRange(rects, e.v)
                  THEN AabbRun(expr, rects, i + 1, Append(operands, At(rects, e.v)))
                  ELSE [status |-> "index", operands |-> operands]
             ELSE IF Len(operands) < 2
                  THEN [status |-> "unwrap", operands |-> operands]
                  ELSE LET right == operands[Len(operands)]
                           left == operands[Len(operands) - 1]
                           rest == SubSeq(operands, 1, Len(operands) - 2)
                       IN  AabbRun(expr, rects, i + 1,
                                   Append(rest, RectAabb(left, right, e.v)))

NpeAabb(expr, rects) == AabbRun(expr, rects, 0, <<>>)

count_operators(expr) == Cardinality({i \in 0..(Len(expr) - 1) : is_cut(At(expr, i))})
count_operands(expr) == Cardinality({i \in 0..(Len(expr) - 1) : is_rect(At(expr, i))})

\* self.swap(a, b)
swap(expr, a, b) == [expr EXCEPT ![a + 1] = At(expr, b), ![b + 1] = At(expr, a)]

\* the k-th smallest element (k from 0) of a set of indices
RECURSIVE NthOf(_, _)
NthOf(S, k) ==
    LET least == CHOOSE x \in S : \A y \in S : x <= y
    IN  IF k = 0 THEN least ELSE NthOf(S \ {least}, k - 1)

\* m1(a): the filter_map iterator yields the operand positions in order;
\* nth(a) and next() are unwrapped
\* mutant: the a-th operand is exchanged with the token after it
m1_next_token(npe, a) ==
    LET rects == {i \in 0..(Len(npe.expr) - 1) : is_rect(At(npe.expr, i))}
    IN  IF a + 1 >= Cardinality(rects)
        THEN [status |-> "unwrap", expr |-> npe.expr, ballot |-> npe.ballot]
        ELSE [status |-> "ok",
              expr |-> swap(npe.expr, NthOf(rects, a), NthOf(rects, a) + 1),
              ballot |-> npe.ballot]

m1(npe, a) ==
    LET rects == {i \in 0..(Len(npe.expr) - 1) : is_rect(At(npe.expr, i))}
    IN  IF a + 1 >= Cardinality(rects)
        THEN [status |-> "unwrap", expr |-> npe.expr, ballot |-> npe.ballot]
        ELSE [status |-> "ok",
              expr |-> swap(npe.expr, NthOf(rects, a), NthOf(rects, a + 1)),
              ballot |-> npe.ballot]

\* --------------------------------------------------------------- chains()
\* Option::None of the iterator's item
NoChain == <<>>

\* the closure state when chains() returns: start, stop and the position of
\* the enumerate() iterator it owns
ChainsIter == [start |-> 0, stop |-> 0, pos |-> 0]

\* one call of the from_fn closure: the item it returns and the state it leaves
RECURSIVE ChainsNext(_, _)
\* mutant: the run that ends the sequence is not yielded
ChainsNextNoTail(expr, it) ==
    IF it.pos < Len(expr)
    THEN LET i == it.pos
         IN  IF is_cut(At(expr, i))
             THEN ChainsNext(expr, [it EXCEPT !.pos = i + 1, !.stop = it.stop + 1])
             ELSE IF it.stop - it.start > 0
                  THEN [item |-> <<it.start + 1, it.stop + 1>>,
                        it |-> [start |-> i, stop |-> i, pos |-> i + 1]]
                  ELSE ChainsNext(expr, [start |-> i, stop |-> i, pos |-> i + 1])
    ELSE [item |-> NoChain, it |-> it]

\* mutant: start and stop are not reset after the run that ends the sequence
ChainsNextNoReset(expr, it) ==
    IF it.pos < Len(expr)
    THEN LET i == it.pos
         IN  IF is_cut(At(expr, i))
             THEN ChainsNext(expr, [it EXCEPT !.pos = i + 1, !.stop = it.stop + 1])
             ELSE IF it.stop - it.start > 0
                  THEN [item |-> <<it.start + 1, it.stop + 1>>,
                        it |-> [start |-> i, stop |-> i, pos |-> i + 1]]
                  ELSE ChainsNext(expr, [start |-> i, stop |-> i, pos |-> i + 1])
    ELSE IF it.stop - it.start > 0
         THEN [item |-> <<it.start + 1, it.stop + 1>>, it |-> it]
         ELSE [item |-> NoChain, it |-> it]

ChainsNext(expr, it) ==
    IF it.pos < Len(expr)
    THEN LET i == it.pos
         IN  IF is_cut(At(expr, i))
             THEN ChainsNext(expr, [it EXCEPT !.pos = i + 1, !.stop = it.stop + 1])
             ELSE IF it.stop - it.start > 0
                  THEN [item |-> <<it.start + 1, it.stop + 1>>,
                        it |-> [start |-> i, stop |-> i, pos |-> i + 1]]
                  ELSE ChainsNext(expr, [start |-> i, stop |-> i, pos |-> i + 1])
    ELSE IF it.stop - it.start > 0
         THEN [item |-> <<it.start + 1, it.stop + 1>>,
               it |-> [start |-> 0, stop |-> 0, pos |-> it.pos]]
         ELSE [item |-> NoChain, it |-> it]

\* Iterator::nth(n) on the iterator in state `it`
RECURSIVE ChainsNth(_, _, _)
ChainsNth(expr, it, n) ==
    LET r == ChainsNext(expr, it)
    IN  IF r.item = NoChain THEN NoChain
        ELSE IF n = 0 THEN r.item
        ELSE ChainsNth(expr, r.it, n - 1)

\* the items the iterator in state `it` yields up to its first None
RECURSIVE ChainsCollect(_, _)
ChainsCollect(expr, it) ==
    LET r == ChainsNext(expr, it)
    IN  IF r.item = NoChain THEN <<>> ELSE <<r.item>> \o ChainsCollect(expr, r.it)

\* self.chains().count()
ChainsCount(expr) == Len(ChainsCollect(expr, ChainsIter))

\* number_chains: the loop state after the tokens before i, then the last test
RECURSIVE NumberChainsLoop(_, _)
NumberChainsLoop(expr, i) ==
    IF i = 0
    THEN [start |-> 0, stop |-> 0, count |-> 0]
    ELSE LET s == NumberChainsLoop(expr, i - 1)
         IN  IF is_cut(At(expr, i - 1))
             THEN [s EXCEPT !.stop = s.stop + 1]
             ELSE IF s.stop - s.start > 0
                  THEN [start |-> i - 1, stop |-> i - 1, count |-> s.count + 1]
                  ELSE s

number_chains(expr) ==
    LET s == NumberChainsLoop(expr, Len(expr))
    IN  IF s.stop - s.start > 0 THEN s.count + 1 ELSE s.count

\* the body of the for loop of m2 over the slice expr[a..b]
\* mutant: only the first token of the chain is flipped
FlipChainFirst(expr, a, b) ==
    IF a < b /\ is_cut(At(expr, a))
    THEN SetAt(expr, a, ItemCut(opposite(At(expr, a).v)))
    ELSE expr

RECURSIVE FlipChain(_, _, _)
FlipChain(expr, a, b) ==
    IF a >= b
    THEN expr
    ELSE FlipChain(IF is_cut(At(expr, a))
                   THEN SetAt(expr, a, ItemCut(opposite(At(expr, a).v)))
                   ELSE expr,
                   a + 1, b)

m2(npe, n) ==
    LET r == ChainsNth(npe.expr, ChainsIter, n)
    IN  IF r = NoChain
        THEN [status |-> "unwrap", expr |-> npe.expr, ballot |-> npe.ballot]
        ELSE IF r[1] > r[2] \/ r[2] > Len(npe.expr)
        THEN [status |-> "index", expr |-> npe.expr, ballot |-> npe.ballot]
        ELSE [status |-> "ok", expr |-> FlipChain(npe.expr, r[1], r[2]),
              ballot |-> npe.ballot]

\* -------------------------------------------------------------------- m3
\* mutant: the operator count is read at a, before the operator at b is counted
satisfies_ballot_at_a(npe, a, b) == 2 * At(npe.ballot, a)[2] < a

\* mutant: the position is counted from 1, as the number of tokens up to b
satisfies_ballot_one_based(npe, a, b) == 2 * At(npe.ballot, b)[2] < b + 1

satisfies_ballot(npe, a, b) == 2 * At(npe.ballot, b)[2] < a

\* whether the slice expr[a..=b] of is_normalized is inside the vector
SliceInside(expr, a, b) == a <= b + 1 /\ b < Len(expr)

\* is_normalized(a, b) on a slice that is inside the vector
is_normalized(expr, a, b) ==
    \A k \in a..(b - 1) : At(expr, k) # At(expr, k + 1)

saturating_sub(a, b) == IF a >= b THEN a - b ELSE 0

\* the candidate positions m3 collects from windows(2)
Windows(expr) ==
    {i \in 0..(Len(expr) - 2) :
        \/ is_rect(At(expr, i)) /\ is_cut(At(expr, i + 1))
        \/ is_cut(At(expr, i)) /\ is_rect(At(expr, i + 1))}

\* the for loop of m3 over the shuffled candidates `order`
RECURSIVE M3Loop(_, _)
\* mutant: the loop goes on to the next candidate after a swap it keeps
M3LoopNoBreak(npe, order) ==
    IF order = <<>>
    THEN [status |-> "ok", expr |-> npe.expr, ballot |-> npe.ballot]
    ELSE LET i == Head(order)
         IN  IF ~satisfies_ballot(npe, i, i + 1)
             THEN M3Loop(npe, Tail(order))
             ELSE IF ~SliceInside(npe.expr, saturating_sub(i, 1), i + 2)
             THEN [status |-> "index", expr |-> npe.expr, ballot |-> npe.ballot]
             ELSE IF ~is_normalized(npe.expr, saturating_sub(i, 1), i + 2)
             THEN M3Loop(npe, Tail(order))
             ELSE LET swapped == swap(npe.expr, i, i + 1)
                  IN  IF ~is_normalized(swapped, saturating_sub(i, 1), i + 2)
                      THEN M3Loop([npe EXCEPT !.expr = swap(swapped, i, i + 1)],
                                  Tail(order))
                      ELSE M3Loop([expr |-> swapped,
                                   ballot |-> calculate_ballot(swapped)], Tail(order))

\* mutant: the ballot sequence is not recomputed after the swap that is kept
M3LoopStaleBallot(npe, order) ==
    IF order = <<>>
    THEN [status |-> "ok", expr |-> npe.expr, ballot |-> npe.ballot]
    ELSE LET i == Head(order)
         IN  IF ~satisfies_ballot(npe, i, i + 1)
             THEN M3Loop(npe, Tail(order))
             ELSE IF ~SliceInside(npe.expr, saturating_sub(i, 1), i + 2)
             THEN [status |-> "index", expr |-> npe.expr, ballot |-> npe.ballot]
             ELSE IF ~is_normalized(npe.expr, saturating_sub(i, 1), i + 2)
             THEN M3Loop(npe, Tail(order))
             ELSE LET swapped == swap(npe.expr, i, i + 1)
                  IN  IF ~is_normalized(swapped, saturating_sub(i, 1), i + 2)
                      THEN M3Loop([npe EXCEPT !.expr = swap(swapped, i, i + 1)],
                                  Tail(order))
                      ELSE [status |-> "ok", expr |-> swapped, ballot |-> npe.ballot]

M3Loop(npe, order) ==
    IF order = <<>>
    THEN [status |-> "ok", expr |-> npe.expr, ballot |-> npe.ballot]
    ELSE LET i == Head(order)
         IN  IF ~satisfies_ballot(npe, i, i + 1)
             THEN M3Loop(npe, Tail(order))
             ELSE IF ~SliceInside(npe.expr, saturating_sub(i, 1), i + 2)
             THEN [status |-> "index", expr |-> npe.expr, ballot |-> npe.ballot]
             ELSE IF ~is_normalized(npe.expr, saturating_sub(i, 1), i + 2)
             THEN M3Loop(npe, Tail(order))
             ELSE LET swapped == swap(npe.expr, i, i + 1)
                  IN  IF ~is_normalized(swapped, saturating_sub(i, 1), i + 2)
                      THEN M3Loop([npe EXCEPT !.expr = swap(swapped, i, i + 1)],
                                  Tail(order))
                      ELSE [status |-> "ok", expr |-> swapped,
                            ballot |-> calculate_ballot(swapped)]

\* the orders windows.shuffle() can leave the candidates in
RECURSIVE ShuffleOrders(_)
ShuffleOrders(S) ==
    IF S = {}
    THEN {<<>>}
    ELSE UNION {{<<x>> \o tail : tail \in ShuffleOrders(S \ {x})} : x \in S}

RECURSIVE Ascending(_)
Ascending(S) ==
    IF S = {}
    THEN <<>>
    ELSE LET least == CHOOSE x \in S : \A y \in S : x <= y
         IN  <<least>> \o Ascending(S \ {least})

Reverse(s) == [k \in 1..Len(s) |-> s[Len(s) + 1 - k]]
Rotations(s) == {SubSeq(s, k, Len(s)) \o SubSeq(s, 1, k - 1) : k \in 1..Len(s)}

\* every order for up to MaxShuffle candidates; for more, the rotations of the
\* ascending and of the descending order, which put each candidate first
Shuffles(S) ==
    IF Cardinality(S) <= MaxShuffle
    THEN ShuffleOrders(S)
    ELSE Rotations(Ascending(S)) \cup Rotations(Reverse(Ascending(S)))

m3(npe, order) == M3Loop(npe, order)

\* ------------------------------------------------------------------- state
VARIABLES
    pc,       \* where the program is: "start", "tree", "npe", "iter", "perturb",
              \* "search", "selected", "abort"
    tree,     \* the SlicingTree (data, nodes) while one is held
    expr,     \* NPE.expr
    ballot,   \* NPE.ballot
    status,   \* "ok", or the fatal error the last operation stopped with
    last,     \* the operation that returned last
    boxes,    \* the rectangles returned by SlicingTree::aabb(0) and NPE::aabb
    it,       \* the state of the live chains() iterator
    got,      \* what the calls of next() on it have returned, in order
    locals,   \* the locals of perturb: num_chains, num_operators, iterations left;
              \* after random_tree, the arguments it was called with
    runs,     \* the simulated_annealing calls in progress, one record per worker
    best      \* main's reduction min_by_key: its partial results and its answer

vars == <<pc, tree, expr, ballot, status, last, boxes, it, got, locals, runs, best>>

NoTree == [data |-> <<>>, nodes |-> <<>>]
NoBoxes == <<>>
NoLocals == <<>>
NoRuns == <<>>
NoBest == <<>>

\* the trees random_tree builds from StartDim, and the rectangle tables they own
StartTrees == UNION {random_tree(StartDim[1], StartDim[2], k) : k \in 0..MaxCuts}
RectTables == {t.data : t \in StartTrees}

Self == [expr |-> expr, ballot |-> ballot]

\* ------------------------------------------------- the moves on an NPE (Spec)
\* let npe = SlicingTree::random_tree(..).postorder();
Init ==
    /\ pc = "npe"
    /\ tree = NoTree
    /\ \E t \in StartTrees :
          /\ expr = postorder(t).expr
          /\ ballot = postorder(t).ballot
    /\ status = "ok"
    /\ last = "new"
    /\ boxes = NoBoxes
    /\ it = ChainsIter
    /\ got = <<>>
    /\ locals = NoLocals
    /\ runs = NoRuns
    /\ best = NoBest

Return(r, op) ==
    /\ expr' = r.expr
    /\ ballot' = r.ballot
    /\ status' = r.status
    /\ pc' = IF r.status = "ok" THEN "npe" ELSE "abort"
    /\ last' = op
    /\ UNCHANGED <<runs, best, tree, boxes, it, got>>

\* npe.m1(a), called with 0 <= a < operand_count - 1
M1(a) ==
    /\ pc = "npe"
    /\ Return(m1(Self, a), "m1")
    /\ UNCHANGED locals

\* npe.m2(n), called with n < number of chains
M2(n) ==
    /\ pc = "npe"
    /\ Return(m2(Self, n), "m2")
    /\ UNCHANGED locals

\* npe.m3(), the shuffle leaving the candidates in `order`
M3(order) ==
    /\ pc = "npe"
    /\ LET r == m3(Self, order)
       IN  Return(r, IF r.expr = expr THEN "m3_none" ELSE "m3_kept")
    /\ UNCHANGED locals

Next ==
    \/ \E a \in 0..(count_operands(expr) - 2) : M1(a)
    \/ \E n \in 0..(number_chains(expr) - 1) : M2(n)
    \/ \E order \in Shuffles(Windows(expr)) : M3(order)

Spec == Init /\ [][Next]_vars

\* ------------------------------ building and decoding a tree (SpecTree)
InitTree ==
    /\ pc = "start"
    /\ tree = NoTree
    /\ expr = <<>>
    /\ ballot = <<>>
    /\ status = "ok"
    /\ last = "none"
    /\ boxes = NoBoxes
    /\ it = ChainsIter
    /\ got = <<>>
    /\ locals = NoLocals
    /\ runs = NoRuns
    /\ best = NoBest

\* let tree = SlicingTree::random_tree(width, height, num_cuts);
RandomTree(width, height, num_cuts) ==
    /\ pc = "start"
    /\ tree' \in random_tree(width, height, num_cuts)
    /\ pc' = "tree"
    /\ last' = "random_tree"
    /\ locals' = [width |-> width, height |-> height, num_cuts |-> num_cuts]
    /\ UNCHANGED <<runs, best, expr, ballot, status, boxes, it, got>>

\* let npe = tree.postorder();
Postorder ==
    /\ pc = "tree"
    /\ expr' = postorder(tree).expr
    /\ ballot' = postorder(tree).ballot
    /\ pc' = "decoded"
    /\ last' = "postorder"
    /\ UNCHANGED <<runs, best, tree, status, boxes, it, got, locals>>

\* tree.aabb(0) and npe.aabb(&tree.data)
Aabb ==
    /\ pc = "decoded"
    /\ LET r == NpeAabb(expr, tree.data)
       IN  /\ status' = r.status
           /\ boxes' = <<TreeAabb(tree, 0),
                         IF r.status = "ok" THEN At(r.operands, 0) ELSE NoBoxes>>
           /\ pc' = IF r.status = "ok" THEN "done" ELSE "abort"
    /\ last' = "aabb"
    /\ UNCHANGED <<runs, best, tree, expr, ballot, it, got, locals>>

NextTree ==
    \/ \E dim \in Dims : \E num_cuts \in 0..MaxCuts : RandomTree(dim[1], dim[2], num_cuts)
    \/ Postorder
    \/ Aabb

SpecTree == InitTree /\ [][NextTree]_vars

\* ------------------------------------- one chains() iterator (SpecChains)
\* let mut chains = npe.chains();
ChainsCall ==
    /\ pc = "npe"
    /\ it' = ChainsIter
    /\ got' = <<>>
    /\ pc' = "iter"
    /\ last' = "chains"
    /\ UNCHANGED <<runs, best, tree, expr, ballot, status, boxes, locals>>

\* chains.next()
Next_ ==
    /\ pc = "iter"
    /\ Len(got) < MaxCalls
    /\ LET r == ChainsNext(expr, it)
       IN  /\ it' = r.it
           /\ got' = Append(got, r.item)
    /\ last' = "next"
    /\ UNCHANGED <<runs, best, pc, tree, expr, ballot, status, boxes, locals>>

NextChains ==
    \/ ChainsCall
    \/ Next_

SpecChains == Init /\ [][NextChains]_vars

\* ----------------------------------------------- perturb (SpecPerturb)
\* rng.gen_range(low, high): the values it can return; it panics on none
gen_range(low, high) == low..(high - 1)

\* the ranks the M1 branch of perturb draws from
M1Ranks(num_operators) == gen_range(0, num_operators - 1)

\* the ranks the M2 branch of perturb draws from
M2Ranks(num_chains) == gen_range(0, num_chains)

\* npe.perturb(iterations): the statements before the loop
Perturb(iterations) ==
    /\ pc = "npe"
    /\ locals' = [num_chains |-> ChainsCount(expr),
                  num_operators |-> count_operators(expr),
                  iterations |-> iterations]
    /\ pc' = "perturb"
    /\ last' = "perturb"
    /\ UNCHANGED <<runs, best, tree, expr, ballot, status, boxes, it, got>>

\* a fatal error of the loop body
Abort(why, op) ==
    /\ status' = why
    /\ pc' = "abort"
    /\ last' = op
    /\ UNCHANGED <<runs, best, tree, expr, ballot, boxes, it, got, locals>>

\* what an iteration leaves when its move has returned `r`
Iterate(r, op, num_chains) ==
    /\ expr' = r.expr
    /\ ballot' = r.ballot
    /\ status' = r.status
    /\ pc' = IF r.status = "ok" THEN "perturb" ELSE "abort"
    /\ last' = op
    /\ locals' = [locals EXCEPT !.iterations = locals.iterations - 1,
                                !.num_chains = num_chains]
    /\ UNCHANGED <<runs, best, tree, boxes, it, got>>

\* an iteration that chooses 1: num_operators - 1 underflows usize on 0, and
\* gen_range panics on an empty range
PerturbM1 ==
    /\ pc = "perturb"
    /\ locals.iterations > 0
    /\ IF locals.num_operators = 0
       THEN Abort("overflow", "m1")
       ELSE IF M1Ranks(locals.num_operators) = {}
       THEN Abort("range", "m1")
       ELSE \E a \in M1Ranks(locals.num_operators) :
               Iterate(m1(Self, a), "m1", locals.num_chains)

\* an iteration that chooses 2
PerturbM2 ==
    /\ pc = "perturb"
    /\ locals.iterations > 0
    /\ IF M2Ranks(locals.num_chains) = {}
       THEN Abort("range", "m2")
       ELSE \E n \in M2Ranks(locals.num_chains) :
               Iterate(m2(Self, n), "m2", locals.num_chains)

\* mutant: the M3 branch keeps the chain count cached before the loop
PerturbM3NoRefresh ==
    /\ pc = "perturb"
    /\ locals.iterations > 0
    /\ \E order \in Shuffles(Windows(expr)) :
          LET r == m3(Self, order)
          IN  Iterate(r, IF r.expr = expr THEN "m3_none" ELSE "m3_kept",
                      locals.num_chains)

\* an iteration that chooses 3
PerturbM3 ==
    /\ pc = "perturb"
    /\ locals.iterations > 0
    /\ \E order \in Shuffles(Windows(expr)) :
          LET r == m3(Self, order)
          IN  Iterate(r, IF r.expr = expr THEN "m3_none" ELSE "m3_kept",
                      ChainsCount(r.expr))

\* the loop has run `iterations` times
PerturbReturn ==
    /\ pc = "perturb"
    /\ locals.iterations = 0
    /\ pc' = "done"
    /\ UNCHANGED <<runs, best, tree, expr, ballot, status, last, boxes, it, got, locals>>

NextPerturb ==
    \/ \E iterations \in 0..MaxIter : Perturb(iterations)
    \/ PerturbM1
    \/ PerturbM2
    \/ PerturbM3
    \/ PerturbReturn

SpecPerturb == Init /\ [][NextPerturb]_vars

\* ------------------------------- simulated_annealing, main.rs (SpecAnneal)
\* f32 temperatures, kept exactly as <<numerator, denominator>>
Times(x, y) == <<x[1] * y[1], x[2] * y[2]>>
Less(x, y) == x[1] * y[2] < y[1] * x[2]

\* temp_reduction and the temp_epsilon values handed to simulated_annealing,
\* 0.9999 and 0.05 in main, scaled so that a run has few stages
TempReduction == <<1, 4>>
TempEpsilons == {<<1, 4>>, <<1, 2>>}
\* the rejection ratio 0.95 of the early stop
RejectRatio == <<19, 20>>
\* f32: exp(-x) is 0.0 from x = 104 on
ExpUnderflow == 104
\* num_cuts of the tree main anneals, 49 in main, scaled down
AnnealCuts == 2
\* time and k of the runs main starts in parallel, 1_000_000 and 3 in main,
\* scaled down
RunTime == 1
RunK == 0

\* p(delta_cost, temp) for delta_cost > 0 and 0 < temp <= 1: whether the f32
\* value of exp(-delta_cost / temp) is 0.0 or lies strictly between 0 and 1
p(delta_cost, temp) ==
    IF delta_cost * temp[2] >= ExpUnderflow * temp[1] THEN "zero" ELSE "fraction"

\* the outcomes of rand::random::<f32>() < p(delta, temp); the draw is in [0, 1)
\* and is made only when delta > 0
Draws(delta, temp) ==
    IF delta <= 0 THEN {FALSE}
    ELSE IF p(delta, temp) = "zero" THEN {FALSE} ELSE BOOLEAN

\* what candidate.perturb(1) can leave in the candidate, or the panic it ends in
PerturbOnce(npe) ==
    LET num_chains == ChainsCount(npe.expr)
        num_operators == count_operators(npe.expr)
        panic(why) == [status |-> why, expr |-> npe.expr, ballot |-> npe.ballot]
    IN  (IF num_operators = 0 THEN {panic("overflow")}
         ELSE IF M1Ranks(num_operators) = {} THEN {panic("range")}
         ELSE {m1(npe, a) : a \in M1Ranks(num_operators)})
        \cup (IF M2Ranks(num_chains) = {} THEN {panic("range")}
              ELSE {m2(npe, n) : n \in M2Ranks(num_chains)})
        \cup {m3(npe, order) : order \in Shuffles(Windows(npe.expr))}

\* mutant: a candidate of equal cost needs the draw
AcceptStrictlyLower(delta, below) == delta < 0 \/ below

\* the condition of the acceptance test, `below` being the outcome of the draw
Accept(delta, below) == delta <= 0 \/ below

\* mutant: an accepted uphill candidate is counted but not taken
MetropolisKeepsLower(run, candidate, new_cost, delta, below) ==
    IF Accept(delta, below)
    THEN [best |-> IF delta > 0 THEN run.best
                   ELSE [expr |-> candidate.expr, ballot |-> candidate.ballot],
          best_cost |-> IF delta > 0 THEN run.best_cost ELSE new_cost,
          uphill |-> IF delta > 0 THEN run.uphill + 1 ELSE run.uphill,
          rejected |-> run.rejected]
    ELSE [best |-> run.best, best_cost |-> run.best_cost,
          uphill |-> run.uphill, rejected |-> run.rejected + 1]

\* the if / else of the loop body: what it leaves in best, best_cost, uphill
\* and rejected
Metropolis(run, candidate, new_cost, delta, below) ==
    IF Accept(delta, below)
    THEN [best |-> [expr |-> candidate.expr, ballot |-> candidate.ballot],
          best_cost |-> new_cost,
          uphill |-> IF delta > 0 THEN run.uphill + 1 ELSE run.uphill,
          rejected |-> run.rejected]
    ELSE [best |-> run.best, best_cost |-> run.best_cost,
          uphill |-> run.uphill, rejected |-> run.rejected + 1]

\* mutant: the iteration bound of a stage is tested one iteration late
StageOverOneLate(uphill, iters, n) == uphill > n \/ iters > 2 * n + 1

\* the break test of the inner loop
StageOver(uphill, iters, n) == uphill > n \/ iters > 2 * n

\* the break test of the outer loop, on the reduced temperature
SearchOver(rejected, iters, temp, temp_epsilon) ==
    RejectRatio[2] * rejected > RejectRatio[1] * iters \/ Less(temp, temp_epsilon)

\* a worker that has not called simulated_annealing yet
NoRun == [pc |-> "idle"]

\* the cost of the bounding box of an expression, None if aabb panics
AabbCost(e, rects) ==
    LET r == NpeAabb(e, rects)
    IN  IF r.status = "ok" THEN RectCost(At(r.operands, 0)) ELSE None

Min(a, b) == IF a <= b THEN a ELSE b

\* simulated_annealing up to the head of the first stage. `lowest` and
\* `accepted` are history: the lowest cost a current solution has had, and the
\* last accepted candidate (the input before any)
AnnealEnter(npe, time, k, temp_epsilon, rects) ==
    LET best_cost == AabbCost(npe.expr, rects)
    IN  [pc |-> IF best_cost = None THEN "abort"
                ELSE IF time > 0 THEN "loop" ELSE "returned",
         status |-> IF best_cost = None THEN NpeAabb(npe.expr, rects).status ELSE "ok",
         n |-> count_operands(npe.expr) * k,
         time |-> time,
         k |-> k,
         temp_epsilon |-> temp_epsilon,
         temp |-> <<1, 1>>,
         best |-> npe,
         best_cost |-> best_cost,
         t |-> 0,
         uphill |-> 0,
         iters |-> 0,
         rejected |-> 0,
         lowest |-> best_cost,
         accepted |-> npe.expr]

\* one pass through the body of `loop`
LoopBody(run, candidate, below, rects) ==
    LET iters == run.iters + 1
        new_cost == AabbCost(candidate.expr, rects)
        delta == new_cost - run.best_cost
        m == Metropolis(run, candidate, new_cost, delta, below)
    IN  IF candidate.status # "ok"
        THEN [run EXCEPT !.pc = "abort", !.status = candidate.status, !.iters = iters]
        ELSE IF new_cost = None
        THEN [run EXCEPT !.pc = "abort", !.iters = iters,
                         !.status = NpeAabb(candidate.expr, rects).status]
        ELSE [run EXCEPT !.iters = iters,
                         !.best = m.best,
                         !.best_cost = m.best_cost,
                         !.uphill = m.uphill,
                         !.rejected = m.rejected,
                         !.pc = IF StageOver(m.uphill, iters, run.n)
                                THEN "stage_end" ELSE "loop",
                         !.lowest = Min(run.lowest, m.best_cost),
                         !.accepted = IF delta <= 0 \/ below
                                      THEN candidate.expr ELSE run.accepted]

\* from the end of `loop` to the head of the next stage, or to the return
StageEnd(run) ==
    LET temp == Times(run.temp, TempReduction)
    IN  IF SearchOver(run.rejected, run.iters, temp, run.temp_epsilon)
           \/ run.t + 1 >= run.time
        THEN [run EXCEPT !.temp = temp, !.pc = "returned"]
        ELSE [run EXCEPT !.temp = temp, !.pc = "loop", !.t = run.t + 1,
                         !.uphill = 0, !.iters = 0, !.rejected = 0]

\* the trees main anneals, and the workers of a reduction over `count` runs
AnnealTrees == random_tree(StartDim[1], StartDim[2], AnnealCuts)
WorkerIds == 0..(Len(runs) - 1)

\* one segment of the parallel iterator: the runs lo..hi and the run picked
Part(lo, hi, pick) == [lo |-> lo, hi |-> hi, pick |-> pick]

InitRuns(count) ==
    /\ pc = "search"
    /\ \E t \in AnnealTrees :
          /\ tree = t
          /\ expr = postorder(t).expr
          /\ ballot = postorder(t).ballot
    /\ status = "ok"
    /\ last = "postorder"
    /\ boxes = NoBoxes
    /\ it = ChainsIter
    /\ got = <<>>
    /\ locals = NoLocals
    /\ runs = [w \in 1..count |-> NoRun]
    /\ best = [parts |-> [w \in 1..count |-> Part(w - 1, w - 1, w - 1)],
               chosen |-> None]

InitAnneal == InitRuns(1)

\* what a step of the worker w leaves behind
Step(w, run, op) ==
    /\ runs' = SetAt(runs, w, run)
    /\ last' = op
    /\ UNCHANGED <<pc, tree, expr, ballot, status, boxes, it, got, locals, best>>

\* simulated_annealing(npe.clone(), time, k, temp_epsilon, TempReduction, &tree.data)
Call(w, time, k, temp_epsilon) ==
    /\ pc = "search"
    /\ At(runs, w).pc = "idle"
    /\ Step(w, AnnealEnter(Self, time, k, temp_epsilon, tree.data), "call")

\* one iteration of the inner loop, for the candidate perturb(1) has left
\* and the draw it gets
Iteration(w, candidate, below) ==
    /\ pc = "search"
    /\ At(runs, w).pc = "loop"
    /\ below \in Draws(AabbCost(candidate.expr, tree.data) - At(runs, w).best_cost,
                       At(runs, w).temp)
    /\ Step(w, LoopBody(At(runs, w), candidate, below, tree.data), "loop")

\* the statements after the inner loop
EndStage(w) ==
    /\ pc = "search"
    /\ At(runs, w).pc = "stage_end"
    /\ Step(w, StageEnd(At(runs, w)), "stage_end")

Candidates(w) ==
    IF At(runs, w).pc = "loop" THEN PerturbOnce(At(runs, w).best) ELSE {}

NextAnneal ==
    \/ \E time \in 0..MaxTime : \E k \in 0..MaxK : \E temp_epsilon \in TempEpsilons :
          Call(0, time, k, temp_epsilon)
    \/ \E candidate \in Candidates(0) : \E below \in BOOLEAN :
          Iteration(0, candidate, below)
    \/ EndStage(0)

SpecAnneal == InitAnneal /\ [][NextAnneal]_vars

\* --------------------------- the runs main starts in parallel (SpecMulti)
\* temp_epsilon of the runs main starts in parallel
RunEpsilon == <<1, 4>>

\* the key of min_by_key for the run w: e.aabb(&tree.data).cost() as isize
Key(w) == AabbCost(At(runs, w).best.expr, tree.data)

\* mutant: the reduction keeps the run with the greater key
MaxByKey(a, b) ==
    IF Key(a) > Key(b) THEN {a} ELSE IF Key(b) > Key(a) THEN {b} ELSE {a, b}

\* the run a step of the reduction keeps of two; either when the keys are equal
MinByKey(a, b) ==
    IF Key(a) < Key(b) THEN {a} ELSE IF Key(b) < Key(a) THEN {b} ELSE {a, b}

\* every run of the segment has returned its NPE
Ready(part) == \A w \in part.lo..part.hi : At(runs, w).pc = "returned"

InitMulti == \E count \in 1..Workers : InitRuns(count)

\* the reduction joins two adjacent segments whose runs have returned
Merge(i, pick) ==
    /\ pc = "search"
    /\ i \in 1..(Len(best.parts) - 1)
    /\ Ready(best.parts[i])
    /\ Ready(best.parts[i + 1])
    /\ pick \in MinByKey(best.parts[i].pick, best.parts[i + 1].pick)
    /\ best' = [best EXCEPT !.parts =
                   SubSeq(best.parts, 1, i - 1)
                   \o <<Part(best.parts[i].lo, best.parts[i + 1].hi, pick)>>
                   \o SubSeq(best.parts, i + 2, Len(best.parts))]
    /\ last' = "merge"
    /\ UNCHANGED <<pc, tree, expr, ballot, status, boxes, it, got, locals, runs>>

\* min_by_key(..).unwrap() once a single segment is left
Select ==
    /\ pc = "search"
    /\ Len(best.parts) = 1
    /\ Ready(best.parts[1])
    /\ best' = [best EXCEPT !.chosen = best.parts[1].pick]
    /\ pc' = "selected"
    /\ last' = "select"
    /\ UNCHANGED <<tree, expr, ballot, status, boxes, it, got, locals, runs>>

NextMulti ==
    \/ \E w \in WorkerIds : Call(w, RunTime, RunK, RunEpsilon)
    \/ \E w \in WorkerIds : \E candidate \in Candidates(w) : \E below \in BOOLEAN :
          Iteration(w, candidate, below)
    \/ \E w \in WorkerIds : EndStage(w)
    \/ \E i \in 1..Workers : \E pick \in WorkerIds : Merge(i, pick)
    \/ Select

SpecMulti == InitMulti /\ [][NextMulti]_vars

\* ------------------------------------------------------- what the claims use
\* operand and operator tokens among expr[0..=i], counted from the tokens
OperandsIn(e, i) == Cardinality({k \in 0..i : is_rect(At(e, k))})
OperatorsIn(e, i) == Cardinality({k \in 0..i : is_cut(At(e, k))})

\* skew/ballot property: in every prefix the operands outnumber the operators
Skew(e) == \A i \in 0..(Len(e) - 1) : OperandsIn(e, i) > OperatorsIn(e, i)

\* normalization: no two adjacent operator tokens have the same orientation
Normalized(e) ==
    \A i \in 0..(Len(e) - 2) :
        is_cut(At(e, i)) /\ is_cut(At(e, i + 1)) => At(e, i).v # At(e, i + 1).v

ValidNPE(e) == Len(e) > 0 /\ Skew(e) /\ Normalized(e)

\* the half-open ranges of the maximal runs of operator tokens
Runs(e) ==
    {<<a, b>> \in (0..Len(e)) \X (0..Len(e)) :
        /\ a < b
        /\ \A k \in a..(b - 1) : is_cut(At(e, k))
        /\ a = 0 \/ is_rect(At(e, a - 1))
        /\ b = Len(e) \/ is_rect(At(e, b))}

\* the n-th run from the left (n from 0)
RECURSIVE NthRun(_, _)
NthRun(R, n) ==
    LET first == CHOOSE r \in R : \A q \in R : r[1] <= q[1]
    IN  IF n = 0 THEN first ELSE NthRun(R \ {first}, n - 1)

\* f is e with the tokens at i and j exchanged and every other token in place
ExchangedAt(e, f, i, j) ==
    /\ Len(f) = Len(e)
    /\ At(f, i) = At(e, j)
    /\ At(f, j) = At(e, i)
    /\ \A k \in 0..(Len(e) - 1) : k \notin {i, j} => At(f, k) = At(e, k)

\* the ballot pairs as the tokens of e define them
BallotOf(e) == [i \in 1..Len(e) |-> <<OperandsIn(e, i - 1), OperatorsIn(e, i - 1)>>]

BallotConsistent ==
    /\ Len(ballot) = Len(expr)
    /\ \A i \in 0..(Len(expr) - 1) :
          At(ballot, i) = <<OperandsIn(expr, i), OperatorsIn(expr, i)>>

\* ------------------------------------------------------------------ claims
\* C1: after every M1 (0 <= a < operand_count-1), M2 (n < number of chains) and
\* M3 applied to the postorder of a slicing tree, the move has returned and the
\* NPE is valid: every prefix has more operands than operators and no two
\* adjacent operators have the same orientation.
C1_MovesKeepValid == status = "ok" /\ ValidNPE(expr)

\* an NPE on which m3 has kept a swap, after which it is valid
C1_Witness == last = "m3_kept" /\ ValidNPE(expr) /\ Len(expr) >= 7

\* C2: for every tree random_tree builds, SlicingTree::aabb(0) returns the
\* rectangle that NPE::aabb returns on tree.postorder() and the tree's table.
C2_DecodeAgreement ==
    pc \in {"done", "abort"} => status = "ok" /\ boxes[1] = boxes[2]

\* both evaluators have returned on a tree of four leaves that is not square
C2_Witness ==
    /\ pc = "done"
    /\ Len(tree.data) >= 4
    /\ boxes[1] = boxes[2]
    /\ boxes[1].width # boxes[1].height

\* C3: on the NPE of a tree, after any moves, NPE::aabb with a rectangle table
\* of the tree's size never pops a stack of fewer than two rectangles, never
\* indexes the table out of range, and ends with exactly one rectangle.
C3_AabbStack ==
    \A rects \in RectTables :
        Len(rects) = count_operands(expr) =>
            LET r == NpeAabb(expr, rects)
            IN  r.status = "ok" /\ Len(r.operands) = 1

\* the evaluator has run to one rectangle on an NPE whose topology m3 changed
C3_Witness ==
    /\ last = "m3_kept"
    /\ \E rects \in RectTables :
          /\ Len(rects) = count_operands(expr)
          /\ NpeAabb(expr, rects).status = "ok"
          /\ Len(NpeAabb(expr, rects).operands) = 1

\* C4: a call of m3() either leaves the tokens and the ballot sequence as they
\* were, or exchanges exactly one pair of adjacent tokens, one an operand and
\* the other an operator, and changes no other position.
C4_M3OnePairOrNothing ==
    [][(pc = "npe" /\ last' \in {"m3_none", "m3_kept"}) =>
          \/ expr' = expr /\ ballot' = ballot
          \/ \E i \in 0..(Len(expr) - 2) :
                /\ is_rect(At(expr, i)) # is_rect(At(expr, i + 1))
                /\ ExchangedAt(expr, expr', i, i + 1)]_vars

\* m3 has kept a swap on an NPE with at least two chains
C4_Witness == last = "m3_kept" /\ status = "ok" /\ Cardinality(Runs(expr)) >= 2

\* C5: m2(n) with n below the number of chains flips every operator of the
\* n-th maximal operator run, changes no token outside it, leaves
\* count_operands() and count_operators() as they were, and the operators of
\* the run still alternate.
C5_M2FlipsOneChain ==
    [][\A n \in 0..(Cardinality(Runs(expr)) - 1) :
          (pc = "npe" /\ last' = "m2" /\ M2(n)) =>
             LET run == NthRun(Runs(expr), n)
             IN  /\ status' = "ok"
                 /\ Len(expr') = Len(expr)
                 /\ \A k \in 0..(Len(expr) - 1) :
                       IF k >= run[1] /\ k < run[2]
                       THEN At(expr', k) = ItemCut(opposite(At(expr, k).v))
                       ELSE At(expr', k) = At(expr, k)
                 /\ count_operands(expr') = count_operands(expr)
                 /\ count_operators(expr') = count_operators(expr)
                 /\ \A k \in run[1]..(run[2] - 2) : At(expr', k) # At(expr', k + 1)]_vars

\* m2 has returned on an NPE that holds a chain of two or more operators
C5_Witness ==
    /\ last = "m2"
    /\ status = "ok"
    /\ \E r \in Runs(expr) : r[2] - r[1] >= 2

\* C6: m1(a) with 0 <= a < operand_count-1 exchanges the a-th operand token
\* and the next operand token and leaves every other token in place;
\* number_chains(), the count of each operator token and every ballot pair
\* are as before.
C6_M1ExchangesOperands ==
    [][\A a \in 0..(OperandsIn(expr, Len(expr) - 1) - 2) :
          (pc = "npe" /\ last' = "m1" /\ M1(a)) =>
             LET operands == {k \in 0..(Len(expr) - 1) : is_rect(At(expr, k))}
                 first == CHOOSE k \in operands : OperandsIn(expr, k) = a + 1
                 second == CHOOSE k \in operands : OperandsIn(expr, k) = a + 2
             IN  /\ status' = "ok"
                 /\ ExchangedAt(expr, expr', first, second)
                 /\ number_chains(expr') = number_chains(expr)
                 /\ \A c \in Cuts :
                       Cardinality({k \in 0..(Len(expr) - 1) : At(expr', k) = ItemCut(c)})
                       = Cardinality({k \in 0..(Len(expr) - 1) : At(expr, k) = ItemCut(c)})
                 /\ ballot' = ballot
                 /\ BallotOf(expr') = BallotOf(expr)]_vars

\* m1 has returned on an NPE with operators between its operands
C6_Witness ==
    /\ last = "m1"
    /\ status = "ok"
    /\ Cardinality(Runs(expr)) >= 2

\* C7: chains() yields, left to right, exactly the half-open ranges of the
\* maximal runs of operator tokens, and number_chains() is their number.
C7_ChainsAreMaximalRuns ==
    LET yielded == ChainsCollect(expr, ChainsIter)
    IN  /\ {yielded[k] : k \in 1..Len(yielded)} = Runs(expr)
        /\ \A k \in 1..(Len(yielded) - 1) : yielded[k][2] < yielded[k + 1][1]
        /\ number_chains(expr) = Len(yielded)
        /\ number_chains(expr) = Cardinality(Runs(expr))

\* an NPE changed by m3 that holds two chains, one of them of several operators
C7_Witness ==
    /\ last = "m3_kept"
    /\ Len(ChainsCollect(expr, ChainsIter)) >= 2
    /\ \E r \in Runs(expr) : r[2] - r[1] >= 2

\* C9: the ballot sequence has the length of the token sequence and ballot[i]
\* counts the operand and the operator tokens of expr[0..=i]; m1 and m2 leave
\* it unchanged and m3 leaves it recomputed when it keeps a swap.
C9_BallotConsistent ==
    /\ [](status = "ok" /\ BallotConsistent)
    /\ [][last' \in {"m1", "m2", "m3_none"} => ballot' = ballot]_vars
    /\ [][last' = "m3_kept" => ballot' # ballot /\ ballot' = BallotOf(expr')]_vars

\* m3 has kept a swap and the ballot sequence counts the new tokens
C9_Witness == last = "m3_kept" /\ BallotConsistent /\ status = "ok" /\ Len(ballot) >= 7

\* C8 as stated: the iterator of chains() on an NPE with a chain never ends;
\* past the last chain it yields the first chain again.
C8_ChainsIsCyclic ==
    (pc = "iter" /\ Runs(expr) # {}) =>
        \A k \in 1..Len(got) :
            got[k] = NthRun(Runs(expr), (k - 1) % Cardinality(Runs(expr)))

\* C8, amended: the iterator of chains() yields each chain once, left to
\* right, then returns None on that call and on every later call.
C8_ChainsEnds ==
    pc = "iter" =>
        \A k \in 1..Len(got) :
            got[k] = IF k <= Cardinality(Runs(expr))
                     THEN NthRun(Runs(expr), k - 1)
                     ELSE NoChain

\* next() has been called twice past the last of several chains
C8_Witness ==
    /\ pc = "iter"
    /\ Cardinality(Runs(expr)) >= 2
    /\ Len(got) >= Cardinality(Runs(expr)) + 2
    /\ got[Len(got)] = NoChain

\* C10: the ranks perturb draws for M1 are the valid operand ranks, every a
\* with 0 <= a < operand_count-1 and no other, so the last pair of operands
\* can be exchanged too.
C10_M1RanksAreValidRanks ==
    pc = "perturb" =>
        LET drawn == IF locals.num_operators = 0 THEN {}
                     ELSE M1Ranks(locals.num_operators)
        IN  drawn = 0..(count_operands(expr) - 2)

\* C11: a single-leaf tree of width x height that random_tree splits once, by
\* the cut c, holds exactly two rectangles, both (width, height div 2) when c is
\* horizontal and both (width div 2, height) when c is vertical; its postorder
\* NPE is [operand 0, operand 1, c] with the ballot [(1,0), (2,0), (2,1)]; a
\* 4x4 start cut horizontally gives the rectangle (4, 2) twice and operator H.
C11_SingleCut ==
    (pc \in {"decoded", "done"} /\ locals.num_cuts = 1) =>
        LET c == At(tree.nodes, 0).cut
            half == IF c = Horizontal
                    THEN [width |-> locals.width, height |-> locals.height \div 2]
                    ELSE [width |-> locals.width \div 2, height |-> locals.height]
        IN  /\ c \in Cuts
            /\ tree.data = <<half, half>>
            /\ expr = <<ItemRect(0), ItemRect(1), ItemCut(c)>>
            /\ ballot = <<(<<1, 0>>), (<<2, 0>>), (<<2, 1>>)>>
            /\ (locals.width = 4 /\ locals.height = 4 /\ c = Horizontal) =>
                   /\ tree.data = <<[width |-> 4, height |-> 2],
                                    [width |-> 4, height |-> 2]>>
                   /\ At(expr, 2) = ItemCut(Horizontal)

\* the 4x4 start, cut once horizontally, with its NPE decoded
C11_Witness ==
    /\ pc = "decoded"
    /\ locals = [width |-> 4, height |-> 4, num_cuts |-> 1]
    /\ At(tree.nodes, 0).cut = Horizontal
    /\ Len(tree.data) = 2
    /\ Len(expr) = 3

\* C12: for any valid NPE with at least 2 operands and any iteration count,
\* perturb completes without a fatal abort: every rank it draws for M1 and for
\* M2 comes from a non-empty range and satisfies the move's precondition, and
\* M3 never fails.
C12_PerturbNeverAborts ==
    count_operands(expr) >= 2 =>
        /\ pc # "abort"
        /\ (pc = "perturb" /\ locals.iterations > 0) =>
              /\ locals.num_operators > 0
              /\ M1Ranks(locals.num_operators) # {}
              /\ M1Ranks(locals.num_operators) \subseteq 0..(count_operands(expr) - 2)
              /\ M2Ranks(locals.num_chains) # {}
              /\ M2Ranks(locals.num_chains) \subseteq 0..(Cardinality(Runs(expr)) - 1)
              /\ \A order \in Shuffles(Windows(expr)) : m3(Self, order).status = "ok"

\* C15: in perturb, at every draw of an M2 rank the bound of the draw equals
\* the number of chains of the NPE at that moment: the count cached before the
\* loop is refreshed after every M3, and M1 and M2 leave it as it is.
C15_ChainCountIsCurrent ==
    pc = "perturb" =>
        /\ locals.num_chains = Cardinality(Runs(expr))
        /\ M2Ranks(locals.num_chains) = 0..(Cardinality(Runs(expr)) - 1)

\* an M3 of the loop has moved an operator and another iteration is to come
C15_Witness ==
    /\ pc = "perturb"
    /\ last = "m3_kept"
    /\ locals.iterations > 0
    /\ locals.num_chains = Cardinality(Runs(expr))
    /\ locals.num_chains < locals.num_operators

\* C16: on any valid NPE m3() never reads outside the token sequence and never
\* moves the final token: at the last candidate position i = len-2 the ballot
\* test is false, so the window checks over i-1..=i+2 are evaluated only when
\* i+2 <= len-1; after any sequence of moves the last token is still an
\* operator.
C16_M3StaysInside ==
    Len(expr) >= 3 =>
        /\ status # "index"
        /\ is_cut(At(expr, Len(expr) - 1))
        /\ ~satisfies_ballot(Self, Len(expr) - 2, Len(expr) - 1)
        /\ \A i \in Windows(expr) :
              satisfies_ballot(Self, i, i + 1) =>
                  /\ i + 2 <= Len(expr) - 1
                  /\ SliceInside(expr, saturating_sub(i, 1), i + 2)
        /\ \A order \in Shuffles(Windows(expr)) :
              LET r == m3(Self, order)
              IN  /\ r.status = "ok"
                  /\ At(r.expr, Len(expr) - 1) = At(expr, Len(expr) - 1)

\* m3 has run on an NPE of four operands whose last two tokens are an operand
\* and an operator: len-2 was among its candidates and failed the ballot test
C16_Witness ==
    /\ last = "m3_none"
    /\ status = "ok"
    /\ Len(expr) >= 7
    /\ (Len(expr) - 2) \in Windows(expr)
    /\ ~satisfies_ballot(Self, Len(expr) - 2, Len(expr) - 1)

\* the expressions one move turns e into: m1 at every operand rank, m2 at every
\* chain, m3 with every order of its candidates
MoveResults(e) ==
    LET npe == [expr |-> e, ballot |-> calculate_ballot(e)]
    IN  {m1(npe, a).expr : a \in 0..(count_operands(e) - 2)}
        \cup {m2(npe, n).expr : n \in 0..(number_chains(e) - 1)}
        \cup {m3(npe, order).expr : order \in Shuffles(Windows(e))}

\* the expressions reachable from those of `frontier` by moves, `known` included
RECURSIVE ReachableBy(_, _)
ReachableBy(known, frontier) ==
    IF frontier = {}
    THEN known
    ELSE LET next == UNION {MoveResults(e) : e \in frontier}
         IN  ReachableBy(known \cup next, next \ known)

ReachableFrom(e) == ReachableBy({e}, {e})

\* every sequence of `len` tokens that is a prefix of a valid NPE over the
\* operands 0..n-1: operands not repeated, fewer operators than operands, no
\* operator after an equal operator
RECURSIVE ValidPrefixes(_, _)
ValidPrefixes(n, len) ==
    IF len = 0
    THEN {<<>>}
    ELSE {Append(q, t) :
            <<q, t>> \in
              {<<q, t>> \in ValidPrefixes(n, len - 1)
                             \X ({ItemRect(i) : i \in 0..(n - 1)}
                                  \cup {ItemCut(c) : c \in Cuts}) :
                  IF is_rect(t)
                  THEN \A k \in 1..Len(q) : q[k] # t
                  ELSE /\ Cardinality({k \in 1..Len(q) : is_cut(q[k])}) + 1
                            < Cardinality({k \in 1..Len(q) : is_rect(q[k])})
                       /\ q[Len(q)] # t}}

\* every valid NPE over the operands 0..n-1
ValidNPEs(n) == ValidPrefixes(n, 2 * n - 1)

\* C13: the three moves connect the neighbourhood: for every n >= 3, from any
\* valid NPE every valid normalized NPE over the same n operands is reachable
\* by a sequence of M1, M2 and M3 moves (M3 being the move that changes the
\* tree topology).
C13_MovesConnect ==
    count_operands(expr) >= 3 =>
        \A f \in ValidNPEs(count_operands(expr)) : f \in ReachableFrom(expr)

\* the annealing run of SpecAnneal
TheRun == At(runs, 0)
Running(run) == run.pc \in {"loop", "stage_end", "returned"}

\* C17: one iteration of the inner loop is a Metropolis step: the candidate is
\* the current solution after exactly one perturbation; a candidate whose cost
\* does not exceed the current cost is always accepted, a costlier one only
\* when the uniform draw is below exp(-delta/temp); after the iteration the
\* current solution is the candidate if it was accepted and is unchanged if it
\* was rejected, and the tracked cost is the bounding-box cost of the current
\* solution.
C17_MetropolisStep ==
    [][(pc = "search" /\ TheRun.pc = "loop") =>
          LET run == TheRun
              after == At(runs', 0)
              moves == MoveResults(run.best.expr)
          IN  \A candidate \in PerturbOnce(run.best) : \A below \in BOOLEAN :
                Iteration(0, candidate, below) =>
                LET cost == RectCost(At(NpeAabb(candidate.expr, tree.data).operands, 0))
                    taken == cost <= run.best_cost \/ below
                IN  /\ candidate.expr \in moves
                    /\ below => p(cost - run.best_cost, run.temp) # "zero"
                    /\ taken => /\ after.best.expr = candidate.expr
                                /\ after.best.ballot = candidate.ballot
                                /\ after.best_cost = cost
                    /\ ~taken => /\ after.best = run.best
                                 /\ after.best_cost = run.best_cost
                    /\ after.best_cost
                         = RectCost(At(NpeAabb(after.best.expr, tree.data).operands, 0))
      ]_vars

\* a stage in which a costlier candidate has been accepted and another
\* candidate has been rejected
C17_Witness ==
    /\ pc = "search"
    /\ Len(runs) = 1
    /\ TheRun.pc = "loop"
    /\ TheRun.uphill >= 1
    /\ TheRun.rejected >= 1
    /\ TheRun.best.expr # expr

\* C18: simulated_annealing returns its final current solution, the last
\* accepted candidate or the input if none was accepted; it keeps no separate
\* best-seen solution, so the cost of what it returns may be higher than the
\* lowest cost a current solution had earlier in the run.
C18_ReturnsFinalCurrent ==
    (Len(runs) = 1 /\ Running(TheRun)) =>
        /\ TheRun.best.expr = TheRun.accepted
        /\ TheRun.best_cost = AabbCost(TheRun.accepted, tree.data)
        /\ TheRun.lowest <= TheRun.best_cost

\* a run has returned a solution costlier than one it held earlier
C18_Witness ==
    /\ Len(runs) = 1
    /\ TheRun.pc = "returned"
    /\ TheRun.best_cost > TheRun.lowest

\* the iterations a run can still make, an upper bound that every step lowers
Rank(run) ==
    IF run.pc = "loop"
    THEN (run.time - run.t) * (2 * run.n + 3) - run.iters
    ELSE IF run.pc = "stage_end"
    THEN (run.time - run.t) * (2 * run.n + 3) - (2 * run.n + 2)
    ELSE 0

\* C19: every annealing run terminates. With n = operand_count * k, a stage
\* ends at the first iteration after which uphill > n or iters > 2n, so a stage
\* evaluates at least 1 and at most 2n+1 candidates; there are at most `time`
\* stages, and the run stops earlier after a stage whose rejection ratio is
\* above 0.95 or after which the reduced temperature is below epsilon.
C19_AnnealingTerminates ==
    /\ [](Len(runs) = 1 /\ Running(TheRun) =>
            LET run == TheRun
            IN  /\ run.n = count_operands(expr) * run.k
                /\ run.pc = "loop" =>
                      /\ run.t < run.time
                      /\ run.iters <= 2 * run.n
                      /\ run.uphill <= run.n
                      /\ PerturbOnce(run.best) # {}
                /\ run.pc = "stage_end" =>
                      /\ run.t < run.time
                      /\ run.iters >= 1
                      /\ run.iters <= 2 * run.n + 1
                      /\ run.uphill > run.n \/ run.iters > 2 * run.n
                /\ run.pc = "returned" => run.t < run.time \/ run.time = 0
                /\ Rank(run) >= 0)
    /\ [][(Len(runs) = 1 /\ TheRun.pc \in {"loop", "stage_end"}) =>
             LET run == TheRun
                 after == At(runs', 0)
                 temp == Times(run.temp, TempReduction)
             IN  /\ Rank(after) < Rank(run)
                 /\ run.pc = "stage_end" =>
                       /\ after.temp = temp
                       /\ after.pc = "returned"
                            <=> \/ RejectRatio[2] * run.rejected > RejectRatio[1] * run.iters
                                \/ Less(temp, run.temp_epsilon)
                                \/ run.t + 1 = run.time
                       /\ after.pc # "returned" =>
                             /\ after.pc = "loop"
                             /\ after.t = run.t + 1
                             /\ after.iters = 0
         ]_vars

\* a run of two stages has returned after a last stage of 2n+1 iterations, with
\* a stage budget it has used up
C19_Witness ==
    /\ Len(runs) = 1
    /\ TheRun.pc = "returned"
    /\ TheRun.n >= 3
    /\ TheRun.t = 1
    /\ TheRun.iters = 2 * TheRun.n + 1

\* C20: the multi-start reduction: for any number of runs and any interleaving
\* and completion order of the workers, the selected answer is the final NPE
\* of one of the runs and its cost is at most the final cost of every run; no
\* worker writes state that another worker reads (a step of one run leaves
\* every other run, the shared input NPE and the rectangle table as they were).
C20_ReductionSelectsMinimum ==
    /\ [](pc = "selected" =>
            /\ best.chosen \in WorkerIds
            /\ \A w \in WorkerIds :
                  /\ At(runs, w).pc = "returned"
                  /\ Key(best.chosen) <= Key(w)
                  /\ Key(w) = At(runs, w).best_cost)
    /\ [][\A w \in WorkerIds :
             At(runs', w) # At(runs, w) =>
                /\ \A v \in WorkerIds \ {w} : At(runs', v) = At(runs, v)
                /\ Len(runs') = Len(runs)
                /\ tree' = tree
                /\ expr' = expr
                /\ ballot' = ballot
                /\ best' = best
         ]_vars

\* the reduction over Workers runs has selected a run other than the first,
\* and some run has ended costlier than the selected one
C20_Witness ==
    /\ pc = "selected"
    /\ Len(runs) = Workers
    /\ best.chosen # 0
    /\ \E w \in WorkerIds : Key(w) > Key(best.chosen)
    /\ \E w \in WorkerIds : At(runs, w).best.expr # expr

\* the parent of `node` in the arena, and the nodes that carry a cut
ParentOf(t, node) == At(t.nodes, node).parent
InternalNodes(t) == {node \in 0..(Len(t.nodes) - 1) : At(t.nodes, node).rect = None}

\* C14: for every tree random_tree(width, height, n) returns with n >= 1, the
\* cut of each internal node other than the root is the opposite of its
\* parent's cut, and the postorder NPE of the tree is valid: it has 2n+1
\* tokens, its operands are the indices 0..n each exactly once, every prefix
\* holds more operands than operators, and no two adjacent operators are equal.
C14_RandomTreeIsNormalized ==
    (pc \in {"decoded", "done"} /\ locals.num_cuts >= 1) =>
        LET n == locals.num_cuts
        IN  /\ \A node \in InternalNodes(tree) :
                  /\ At(tree.nodes, node).cut \in Cuts
                  /\ ParentOf(tree, node) # None =>
                        At(tree.nodes, node).cut
                            # At(tree.nodes, ParentOf(tree, node)).cut
            /\ Len(expr) = 2 * n + 1
            /\ \A r \in 0..n :
                  Cardinality({k \in 0..(Len(expr) - 1) : At(expr, k) = ItemRect(r)}) = 1
            /\ Cardinality({k \in 0..(Len(expr) - 1) : is_rect(At(expr, k))}) = n + 1
            /\ \A i \in 0..(Len(expr) - 1) :
                  OperandsIn(expr, i) > OperatorsIn(expr, i)
            /\ \A i \in 0..(Len(expr) - 2) :
                  (is_cut(At(expr, i)) /\ is_cut(At(expr, i + 1))) =>
                      At(expr, i) # At(expr, i + 1)

\* a tree of MaxCuts cuts whose NPE holds two adjacent operators: an internal
\* node is the right child of another
C14_Witness ==
    /\ pc = "decoded"
    /\ locals.num_cuts = MaxCuts
    /\ \E i \in 0..(Len(expr) - 2) : is_cut(At(expr, i)) /\ is_cut(At(expr, i + 1))
    /\ \E node \in InternalNodes(tree) :
          ParentOf(tree, node) # None /\ ParentOf(tree, node) # 0

====
